---- MODULE Spec2Model ----
(***************************************************************************)
(* Model of the wave effect plugin, keyledsd/src/plugins/wave.cxx:         *)
(*   - generateColorTable : the cyclic gradient lookup table               *)
(*   - computePhases      : per-key phase offsets from key geometry        *)
(*   - WavePlugin (ctor)  : configuration handling, setup of the buffers   *)
(*   - render             : the per-frame sampler                          *)
(*                                                                         *)
(* Three specifications share the variables:                               *)
(*   SpecGradient : generateColorTable applied to bounded colour lists     *)
(*   SpecPhases   : computePhases applied to bounded device geometries     *)
(*   Spec         : a constructed plugin receiving render calls            *)
(*                                                                         *)
(* Numbers.  TLC integers end at 2^31 - 1 while m_time and m_period are    *)
(* 32-bit unsigned.  Every time quantity of the model (period, delta,      *)
(* m_time) is therefore counted in ticks of 4 ms: a model value v stands   *)
(* for 4*v ms.  Because 4 divides 2^32, unsigned arithmetic on multiples   *)
(* of 4 ms is exactly arithmetic modulo UIntTicks = 2^30 on ticks, and     *)
(* quotients of two tick values equal the quotients of the ms values.  The *)
(* only restriction is that the inputs are multiples of 4 ms.              *)
(***************************************************************************)
EXTENDS Integers, Sequences, FiniteSets, TLC

VARIABLES
    pc,            \* "colors" | "table" | "geometry" | "phases" | "running" | "crashed"
    colors,        \* the configured gradient stops (local `colors` of the constructor)
    table,         \* the table generateColorTable returns, a function on 0..accuracy-1
    writes,        \* history: how many times generateColorTable assigned table[idx]
    blocks,        \* the device's blocks: sequence of [nkeys, pad]
    db,            \* which key database (geometry) the device manager reports
    bounds,        \* manager.keyDB().bounds()
    m_direction,   \* WavePlugin::m_direction
    m_length,      \* WavePlugin::m_length
    m_keys,        \* WavePlugin::m_keys (empty: whole-buffer mode)
    m_phases,      \* WavePlugin::m_phases; entry idx is m_phases[idx + 1]
    cfgPeriod,     \* std::stoul(conf["period"]) in ticks (64-bit value)
    m_period,      \* WavePlugin::m_period, in ticks
    m_time,        \* WavePlugin::m_time, in ticks
    m_buffer,      \* WavePlugin::m_buffer; slot s is m_buffer[s + 1]
    frames,        \* history: number of render calls so far
    lastDelta,     \* history: the ms argument (in ticks) of the last render call
    elapsed,       \* history: (sum of all deltas so far) mod the configured period
    within,        \* history: every delta so far was at most one configured period
    reads,         \* history: the m_colors indices used by the last render call
    written        \* history: the m_buffer slots assigned by the last render call

vars == <<pc, colors, table, writes, blocks, db, bounds, m_direction, m_length,
          m_keys, m_phases, cfgPeriod, m_period, m_time, m_buffer, frames,
          lastDelta, elapsed, within, reads, written>>

gradientVars == <<colors, table, writes>>
geometryVars == <<blocks, db, bounds, m_direction, m_length, m_keys, m_phases>>
renderVars == <<cfgPeriod, m_period, m_time, m_buffer, frames, lastDelta, elapsed,
                within, reads, written>>

(***************************************************************************)
(* Program constants and model bounds                                      *)
(***************************************************************************)
accuracy == 1024

\* 2^32 ms expressed in ticks of 4 ms: the modulus of `unsigned` arithmetic.
UIntTicks == 2^30

DefaultPeriod == 10000 \div 4      \* m_period(10000), in ticks
DefaultLength == 1000              \* m_length(1000)

MaxColors == 3      \* longest gradient list tried
MaxBlocks == 2      \* most device blocks tried
MaxFrames == 3      \* most render calls in one behaviour

(***************************************************************************)
(* C++ integer arithmetic                                                  *)
(***************************************************************************)
Abs(a) == IF a < 0 THEN -a ELSE a

\* a / b on int: truncation toward zero
TruncDiv(a, b) ==
    IF (a >= 0) = (b > 0) THEN Abs(a) \div Abs(b) ELSE -(Abs(a) \div Abs(b))

\* a % b on int: the sign follows the dividend
TruncRem(a, b) == a - b * TruncDiv(a, b)

(***************************************************************************)
(* RGBAColor: <<red, green, blue, alpha>>, each channel 0..255             *)
(***************************************************************************)
Channels == 1..4
Transparent == <<0, 0, 0, 0>>
Black == <<0, 0, 0, 0>>
White == <<255, 255, 255, 255>>
Red == <<255, 0, 0, 255>>
Teal == <<0, 128, 255, 64>>
Palette == {Black, White, Red, Teal}

(***************************************************************************)
(* generateColorTable                                                      *)
(***************************************************************************)
\* Variant of NextStop that does not wrap from the last stop to the first
NextStopNoWrap(range, count) ==
    IF range + 1 >= count THEN range ELSE range + 1

\* colors[range + 1 >= colors.size() ? 0 : range + 1]  (0-based index)
NextStop(range, count) == IF range + 1 >= count THEN 0 ELSE range + 1

\* One channel: channel_type(colorA.c * (1.0f - ratio) + colorB.c * ratio) with
\* ratio = float(k) / float(n).  The float expression is evaluated here in exact
\* rational arithmetic and then truncated; this is the float result whenever n is
\* a power of two (k/n, 1-k/n and both products are then exact in binary32).
Blend(colorA, colorB, k, n) ==
    [c \in Channels |-> (colorA[c] * (n - k) + colorB[c] * k) \div n]

\* auto first = range * table.size() / colors.size()
RangeFirst(range, count) == (range * accuracy) \div count

\* Variant of RangeLast that ends one slot late
RangeLastOff(range, count) == ((range + 1) * accuracy) \div count + 1

\* auto last = (range + 1) * table.size() / colors.size()
RangeLast(range, count) == ((range + 1) * accuracy) \div count

\* The valid indices of a vector of accuracy entries
TableIndices == 0..(accuracy - 1)

\* The outer loop of generateColorTable from range `range` on; acc is the table
\* built so far together with the per-index assignment count.
RECURSIVE FillRanges(_, _, _)
FillRanges(cols, range, acc) ==
    IF range >= Len(cols) THEN acc
    ELSE LET count == Len(cols)
             first == RangeFirst(range, count)
             last == RangeLast(range, count)
             colorA == cols[range + 1]
             colorB == cols[NextStop(range, count) + 1]
             inRange(idx) == first <= idx /\ idx < last
         IN FillRanges(cols, range + 1,
                [table |-> [idx \in TableIndices |->
                               IF inRange(idx)
                               THEN Blend(colorA, colorB, idx - first, last - first)
                               ELSE acc.table[idx]],
                 writes |-> [idx \in TableIndices |->
                               IF inRange(idx) THEN acc.writes[idx] + 1
                               ELSE acc.writes[idx]]])

\* std::vector<RGBAColor> table(accuracy), then the loop over the ranges
generateColorTable(cols) ==
    FillRanges(cols, 0, [table |-> [idx \in TableIndices |-> Transparent],
                         writes |-> [idx \in TableIndices |-> 0]])

(***************************************************************************)
(* Device geometry: the collaborators computePhases reads                  *)
(***************************************************************************)
\* A block of the device: nkeys addressable keys followed by pad unaddressed
\* slots of the render target before the next block starts (or the buffer ends).
BlockShapes == {[nkeys |-> n, pad |-> p] : n \in {0, 2, 3}, p \in {0, 1}}

\* All devices of at most MaxBlocks blocks
RECURSIVE Devices(_)
Devices(n) ==
    IF n = 0 THEN {<<>>}
    ELSE Devices(n - 1) \cup
         {Append(d, s) : d \in {e \in Devices(n - 1) : Len(e) = n - 1}, s \in BlockShapes}

\* &m_buffer.get(bidx, 0) - m_buffer.begin(): blocks are laid out in order, each
\* followed by its padding
RECURSIVE BlockOffset(_, _)
BlockOffset(blks, bidx) ==
    IF bidx = 0 THEN 0
    ELSE BlockOffset(blks, bidx - 1) + blks[bidx].nkeys + blks[bidx].pad

\* m_buffer.size()
BufferSize(blks) == BlockOffset(blks, Len(blks))

\* m_buffer.get(bidx, kidx) as a slot number
SlotOf(blks, bidx, kidx) == BlockOffset(blks, bidx) + kidx

\* manager.keyDB().find(key_descriptor{bidx, kidx}): the key's rectangle, or
\* found = FALSE.  Keys sit on a 40-unit grid, column kidx, row bidx.
\*   "grid"   every key of the device is in the database
\*   "sparse" keys with bidx + kidx odd are missing from the database
\*   "origin" the first key of every block has the all-zero rectangle
DbKinds == {"grid", "sparse", "origin"}

GridRect(bidx, kidx) ==
    [x0 |-> 4 + 40 * kidx, y0 |-> 4 + 40 * bidx,
     x1 |-> 36 + 40 * kidx, y1 |-> 36 + 40 * bidx]

ZeroRect == [x0 |-> 0, y0 |-> 0, x1 |-> 0, y1 |-> 0]

DbFind(kind, blks, bidx, kidx) ==
    [found |-> ~(kind = "sparse" /\ (bidx + kidx) % 2 = 1),
     index |-> SlotOf(blks, bidx, kidx),
     position |-> IF kind = "origin" /\ kidx = 0 THEN ZeroRect
                  ELSE GridRect(bidx, kidx)]

\* manager.keyDB().bounds(): the box of a 3x3 grid, and that of a 5x3 grid
BoundsChoices == {[x0 |-> 4, y0 |-> 4, x1 |-> 116, y1 |-> 116],
                  [x0 |-> 4, y0 |-> 4, x1 |-> 196, y1 |-> 116]}

\* The keys of the database in device order, as a KeyGroup
RECURSIVE KeysFrom(_, _, _, _)
KeysFrom(kind, blks, bidx, kidx) ==
    IF bidx >= Len(blks) THEN <<>>
    ELSE IF kidx >= blks[bidx + 1].nkeys THEN KeysFrom(kind, blks, bidx + 1, 0)
    ELSE LET key == DbFind(kind, blks, bidx, kidx)
             rest == KeysFrom(kind, blks, bidx, kidx + 1)
         IN IF key.found THEN <<[index |-> key.index, position |-> key.position]>> \o rest
            ELSE rest

\* The group list handed to the constructor, by name
GroupNames == {"", "all", "first", "nosuch"}

Groups(kind, blks) ==
    [all |-> KeysFrom(kind, blks, 0, 0),
     first |-> KeysFrom(kind, SubSeq(blks, 1, IF Len(blks) > 0 THEN 1 ELSE 0), 0, 0)]

\* Constructor, "Load key list": m_keys stays empty unless conf["group"] names a
\* group of the list
LoadKeys(groupStr, groups) ==
    IF groupStr # "" /\ groupStr \in DOMAIN groups THEN groups[groupStr] ELSE <<>>

(***************************************************************************)
(* computePhases                                                           *)
(***************************************************************************)
Directions == {0, 45, 90, 135, 180, 225, 270, 315}
Lengths == {1000, 2000}

\* std::sin / std::cos of 2*pi/360 * direction, in millionths, for the
\* directions tried.  The float results differ from these by less than 1e-6,
\* which no product below moves across an integer.
Sin6(d) ==
    CASE d = 0 -> 0 [] d = 45 -> 707107 [] d = 90 -> 1000000 [] d = 135 -> 707107
      [] d = 180 -> 0 [] d = 225 -> -707107 [] d = 270 -> -1000000 [] d = 315 -> -707107

Cos6(d) ==
    CASE d = 0 -> 1000000 [] d = 45 -> 707107 [] d = 90 -> 0 [] d = 135 -> -707107
      [] d = 180 -> -1000000 [] d = 225 -> -707107 [] d = 270 -> 0 [] d = 315 -> 707107

\* float(accuracy) * 1000.0f / float(m_length); exact for the lengths tried
Frequency(length) == (accuracy * 1000) \div length

\* int(frequency * std::sin(...)), int(frequency * std::cos(...))
FreqX(length, d) == TruncDiv(Frequency(length) * Sin6(d), 1000000)
FreqY(length, d) == TruncDiv(Frequency(length) * Cos6(d), 1000000)

\* Variant of WrapPhase without the correction
WrapPhaseNoFix(val) == val

\* if (val < 0) { val += accuracy; }
WrapPhase(val) == IF val < 0 THEN val + accuracy ELSE val

\* Variant of PhaseValue without the reduction modulo accuracy
PhaseValueNoRem(freqX, freqY, nx, ny) == TruncDiv(freqX * nx + freqY * ny, accuracy)

\* (freqX * x + freqY * y) / accuracy % accuracy
PhaseValue(freqX, freqY, nx, ny) ==
    TruncRem(TruncDiv(freqX * nx + freqY * ny, accuracy), accuracy)

\* The per-key body shared by both branches of computePhases
KeyPhase(freqX, freqY, pos, bnds) ==
    LET x == TruncDiv(pos.x0 + pos.x1, 2)
        y == TruncDiv(pos.y0 + pos.y1, 2)
    IN IF x = 0 /\ y = 0 THEN 0
       ELSE LET nx == TruncDiv(accuracy * (x - bnds.x0), bnds.x1 - bnds.x0)
                ny == accuracy - TruncDiv(accuracy * (y - bnds.x0), bnds.x1 - bnds.x0)
            IN WrapPhase(PhaseValue(freqX, freqY, nx, ny))

\* Variant of Padding that inserts nothing
PaddingNone(blks, bidx) == <<>>

\* m_phases.insert(m_phases.end(), nextPtr - curPtr, 0)
Padding(blks, bidx) ==
    LET curPtr == SlotOf(blks, bidx, blks[bidx + 1].nkeys)
        nextPtr == IF bidx + 1 < Len(blks) THEN SlotOf(blks, bidx + 1, 0)
                   ELSE BufferSize(blks)
    IN [i \in 1..(nextPtr - curPtr) |-> 0]

\* Whole-buffer branch: blocks bidx.. of the device
RECURSIVE BlockPhases(_, _, _, _, _, _)
BlockPhases(freqX, freqY, kind, blks, bnds, bidx) ==
    IF bidx >= Len(blks) THEN <<>>
    ELSE LET keyPhases ==
                 [k \in 1..blks[bidx + 1].nkeys |->
                     LET it == DbFind(kind, blks, bidx, k - 1)
                     IN IF ~it.found THEN 0
                        ELSE KeyPhase(freqX, freqY, it.position, bnds)]
         IN keyPhases \o Padding(blks, bidx)
              \o BlockPhases(freqX, freqY, kind, blks, bnds, bidx + 1)

computePhases(length, direction, kind, blks, bnds, keys) ==
    LET freqX == FreqX(length, direction)
        freqY == FreqY(length, direction)
    IN IF keys = <<>>
       THEN BlockPhases(freqX, freqY, kind, blks, bnds, 0)
       ELSE [i \in 1..Len(keys) |-> KeyPhase(freqX, freqY, keys[i].position, bnds)]

(***************************************************************************)
(* The constructor                                                         *)
(***************************************************************************)
\* m_colors = generateColorTable(colors): WavePlugin::m_colors is assigned once,
\* from the configured stops, and never changes; it is read through this
\* definition instead of being copied into every state
m_colors == generateColorTable(colors).table

\* auto period = std::stoul(conf["period"]); if (period > 0) { m_period = period; }
\* period is an unsigned long (64 bits); the assignment keeps its low 32 bits.
StorePeriod(period) == IF period > 0 THEN period % UIntTicks ELSE DefaultPeriod

\* auto length = std::stoul(conf["length"]); if (length > 0) { m_length = length; }
StoreLength(length) == IF length > 0 THEN length ELSE DefaultLength

\* auto direction = std::stoul(conf["direction"]); if (direction > 0) { ... }
StoreDirection(direction) == IF direction > 0 THEN direction ELSE 0

\* The period the configuration asks for: the value given, or the default
ConfiguredPeriod == IF cfgPeriod > 0 THEN cfgPeriod ELSE DefaultPeriod

(***************************************************************************)
(* render                                                                  *)
(***************************************************************************)
\* m_time += ms (ms is an unsigned long, m_time an unsigned), then
\* if (m_time >= m_period) { m_time -= m_period; }
Advance(time, ms, period) ==
    LET sum == (time + (ms % UIntTicks)) % UIntTicks
    IN IF sum >= period THEN sum - period ELSE sum

\* accuracy * m_time in unsigned arithmetic: (accuracy * time) mod UIntTicks,
\* computed as accuracy * (time mod (UIntTicks / accuracy)) to stay in range
ScaledTime(time) == accuracy * (time % (UIntTicks \div accuracy))

\* int t = accuracy * m_time / m_period   (m_period # 0)
GlobalPhase(time, period) == ScaledTime(time) \div period

\* int tphi = t - m_phases[idx]; if (tphi < 0) { tphi += accuracy; }
LocalPhase(t, phase) == IF t - phase < 0 THEN t - phase + accuracy ELSE t - phase

\* Variant of GroupSlot that takes the key's place in the group for its slot
GroupSlotByPosition(keys, i) == i - 1

\* The slot a key of the group is written to: m_buffer.get(m_keys[idx].index)
GroupSlot(keys, i) == keys[i].index

\* What m_colors[tphi] yields: the table entry, or for an index outside the
\* table whatever the out-of-bounds read returns
ReadColor(tbl, tphi, garbage) ==
    IF tphi \in TableIndices THEN tbl[tphi] ELSE garbage

\* The loop of the explicit-group branch, keys i..Len(keys) in order
RECURSIVE WriteGroup(_, _, _, _, _, _, _)
WriteGroup(buf, keys, phases, tbl, t, garbage, i) ==
    IF i > Len(keys) THEN buf
    ELSE WriteGroup([buf EXCEPT ![GroupSlot(keys, i) + 1] =
                        ReadColor(tbl, LocalPhase(t, phases[i]), garbage)],
                    keys, phases, tbl, t, garbage, i + 1)

\* What an out-of-bounds read of m_colors can do: return some colour, or fault
Garbage == {Transparent, Teal}
OutOfBounds ==
    {[fault |-> TRUE, color |-> Transparent]} \cup
    {[fault |-> FALSE, color |-> c] : c \in Garbage}
InBounds == {[fault |-> FALSE, color |-> Transparent]}

\* The deltas tried for a configured period p: none, 3/10 of a period, one
\* period, and (while representable) two periods
DeltaChoices(p) ==
    {0, (p \div 10) * 3, p} \cup (IF p <= 2^29 THEN {2 * p} ELSE {})

History(ms) ==
    /\ frames' = frames + 1
    /\ lastDelta' = ms
    /\ elapsed' = (elapsed + (ms % ConfiguredPeriod)) % ConfiguredPeriod
    /\ within' = (within /\ ms <= ConfiguredPeriod)

Render(ms) ==
    /\ pc = "running"
    /\ frames < MaxFrames
    /\ History(ms)
    /\ m_time' = Advance(m_time, ms, m_period)
    /\ UNCHANGED <<gradientVars, geometryVars, cfgPeriod, m_period>>
    /\ IF m_period = 0
       THEN \* integer division by zero
            /\ pc' = "crashed"
            /\ UNCHANGED <<m_buffer, reads, written>>
       ELSE LET t == GlobalPhase(m_time', m_period)
                n == IF m_keys = <<>> THEN Len(m_buffer) ELSE Len(m_keys)
                used == {LocalPhase(t, m_phases[i]) : i \in 1..n}
            IN IF Len(m_phases) # n
               THEN \* assert(... == m_phases.size())
                    /\ pc' = "crashed"
                    /\ UNCHANGED <<m_buffer, reads, written>>
               ELSE \E out \in (IF used \subseteq TableIndices
                                THEN InBounds ELSE OutOfBounds) :
                    /\ reads' = used
                    /\ IF out.fault
                       THEN /\ pc' = "crashed"
                            /\ UNCHANGED <<m_buffer, written>>
                       ELSE /\ pc' = "running"
                            /\ IF m_keys = <<>>
                               THEN /\ m_buffer' =
                                         [i \in 1..n |->
                                            ReadColor(m_colors,
                                                      LocalPhase(t, m_phases[i]), out.color)]
                                    /\ written' = 0..(n - 1)
                               ELSE /\ m_buffer' = WriteGroup(m_buffer, m_keys, m_phases,
                                                              m_colors, t, out.color, 1)
                                    /\ written' = {GroupSlot(m_keys, i) : i \in 1..n}

(***************************************************************************)
(* Specification of the plugin: constructed, then rendered                 *)
(***************************************************************************)
\* Configured periods, in ticks: "0" (keeps the default 10000 ms), 1000 ms,
\* 2^23 ms, 3 * 2^30 ms and 2^32 ms
PeriodChoices == {0, 250, 2^21, 3 * 2^28, 2^30}

\* The device the plugin is constructed on: two blocks, the first padded
RenderDevice == <<[nkeys |-> 2, pad |-> 1], [nkeys |-> 3, pad |-> 0]>>

\* WavePlugin::WavePlugin: the state the constructor leaves
Construct(period, length, direction, cols, groupStr, kind, blks, bnds) ==
    /\ cfgPeriod = period
    /\ m_time = 0
    /\ m_period = StorePeriod(period)
    /\ m_length = StoreLength(length)
    /\ m_direction = StoreDirection(direction)
    /\ colors = cols
    /\ blocks = blks
    /\ db = kind
    /\ bounds = bnds
    /\ m_keys = LoadKeys(groupStr, Groups(kind, blks))
    /\ m_phases = computePhases(m_length, m_direction, kind, blks, bnds, m_keys)
    /\ m_buffer = [s \in 1..BufferSize(blks) |-> Transparent]

Init ==
    /\ pc = "running"
    /\ \E period \in PeriodChoices, direction \in {0, 45},
          groupStr \in {"", "all", "nosuch"}, kind \in {"grid", "sparse"},
          bnds \in {b \in BoundsChoices : b.x1 = 116} :
          Construct(period, 0, direction, <<Black, White>>, groupStr, kind,
                    RenderDevice, bnds)
    /\ table = <<>>
    /\ writes = <<>>
    /\ frames = 0
    /\ lastDelta = 0
    /\ elapsed = 0
    /\ within = TRUE
    /\ reads = {}
    /\ written = {}

Next == \E ms \in DeltaChoices(ConfiguredPeriod) : Render(ms)

Spec == Init /\ [][Next]_vars

(***************************************************************************)
(* Specification of generateColorTable on bounded colour lists             *)
(***************************************************************************)
\* The non-empty lists of at most n colours of the palette
RECURSIVE ColorLists(_)
ColorLists(n) ==
    IF n = 0 THEN {}
    ELSE {<<c>> : c \in Palette} \cup ColorLists(n - 1) \cup
         {Append(l, c) : l \in ColorLists(n - 1), c \in Palette}

IdleGeometry ==
    /\ blocks = <<>>
    /\ db = "grid"
    /\ bounds = [x0 |-> 4, y0 |-> 4, x1 |-> 116, y1 |-> 116]
    /\ m_direction = 0
    /\ m_length = DefaultLength
    /\ m_keys = <<>>
    /\ m_phases = <<>>

IdleRender ==
    /\ cfgPeriod = 0
    /\ m_period = DefaultPeriod
    /\ m_time = 0
    /\ m_buffer = <<>>
    /\ frames = 0
    /\ lastDelta = 0
    /\ elapsed = 0
    /\ within = TRUE
    /\ reads = {}
    /\ written = {}

InitGradient ==
    /\ pc = "colors"
    /\ colors \in ColorLists(MaxColors)
    /\ table = <<>>
    /\ writes = <<>>
    /\ IdleGeometry
    /\ IdleRender

\* generateColorTable(colors), called and returning
Generate ==
    /\ pc = "colors"
    /\ pc' = "table"
    /\ LET g == generateColorTable(colors)
       IN table' = g.table /\ writes' = g.writes
    /\ UNCHANGED <<colors, geometryVars, renderVars>>

NextGradient == Generate

SpecGradient == InitGradient /\ [][NextGradient]_vars

(***************************************************************************)
(* Specification of computePhases on bounded device geometries             *)
(***************************************************************************)
InitPhases ==
    /\ pc = "geometry"
    /\ colors = <<>>
    /\ table = <<>>
    /\ writes = <<>>
    /\ blocks \in Devices(MaxBlocks)
    /\ db \in DbKinds
    /\ bounds \in BoundsChoices
    /\ m_direction \in Directions
    /\ m_length \in Lengths
    /\ \E groupStr \in GroupNames : m_keys = LoadKeys(groupStr, Groups(db, blocks))
    /\ m_phases = <<>>
    /\ IdleRender

\* computePhases(manager)
ComputePhases ==
    /\ pc = "geometry"
    /\ pc' = "phases"
    /\ m_phases' = computePhases(m_length, m_direction, db, blocks, bounds, m_keys)
    /\ UNCHANGED <<gradientVars, blocks, db, bounds, m_direction, m_length, m_keys,
                   renderVars>>

NextPhases == ComputePhases

SpecPhases == InitPhases /\ [][NextPhases]_vars

(***************************************************************************)
(* Properties of render (specification Spec)                               *)
(***************************************************************************)
\* C1: after setup and any sequence of render calls whose deltas are each at
\* most one period, the time accumulator equals (sum of the deltas) mod period
\* and so lies in [0, period).
C1_TimeIsElapsedModPeriod ==
    (pc = "running" /\ within) =>
        (m_time = elapsed /\ m_time >= 0 /\ m_time < ConfiguredPeriod)

\* C2: once setup has succeeded no render call fails, whatever the deltas: the
\* call completes and every index used to read m_colors lies in [0, accuracy).
C2_NoRenderFails ==
    pc \in {"running", "crashed"} =>
        (pc # "crashed" /\ reads \subseteq TableIndices)

\* C3: periodicity.  A further render call whose delta is exactly one
\* configured period (all deltas so far at most one period) leaves the time
\* accumulator and every colour of the buffer as the previous call left them.
C3_OnePeriodLaterSame ==
    [][(/\ pc = "running" /\ pc' = "running"
        /\ frames >= 1 /\ frames' = frames + 1
        /\ within'
        /\ lastDelta' = ConfiguredPeriod)
       => (m_time' = m_time /\ m_buffer' = m_buffer)]_vars

\* floor(n * (q * p + r) / p) for n a power of two and 0 <= r < p, by long
\* division (the product itself may exceed the range of the model checker)
RECURSIVE FloorScaled(_, _, _, _)
FloorScaled(q, r, p, n) ==
    IF n = 1 THEN q
    ELSE IF 2 * r >= p THEN FloorScaled(2 * q + 1, 2 * r - p, p, n \div 2)
    ELSE FloorScaled(2 * q, 2 * r, p, n \div 2)

\* The mathematical value floor(accuracy * time / period)
MathPhase(time, period) == FloorScaled(time \div period, time % period, period, accuracy)

\* C9: for every period the constructor accepts the stored period is not 0,
\* and for every accumulator value in [0, period) the product accuracy * time
\* does not wrap and the global phase of render is floor(accuracy * time /
\* period), a value in [0, accuracy).
C9_GlobalPhaseExact ==
    pc = "running" =>
        /\ m_period # 0
        /\ m_time < m_period =>
              /\ ScaledTime(m_time) \div accuracy = m_time
              /\ GlobalPhase(m_time, m_period) = MathPhase(m_time, m_period)
              /\ GlobalPhase(m_time, m_period) \in 0..(accuracy - 1)

\* Where the failures above begin: TLC finds each of these to hold.
\* C1 and C3 hold for configured periods of at most 2^31 ms, below which
\* m_time += ms cannot wrap.
C1_HoldsBelowWrap ==
    (pc = "running" /\ within /\ ConfiguredPeriod <= 2^29) =>
        (m_time = elapsed /\ m_time >= 0 /\ m_time < ConfiguredPeriod)

\* C2 holds when the stored period is not 0 and no delta exceeds one period.
C2_HoldsWithinPeriod ==
    (pc \in {"running", "crashed"} /\ within /\ m_period # 0) =>
        (pc # "crashed" /\ reads \subseteq TableIndices)

\* C9 holds for stored periods of at most 2^22 ms.
C9_HoldsBelowWrap ==
    (pc = "running" /\ m_period # 0 /\ m_period <= 2^20 /\ m_time < m_period) =>
        /\ ScaledTime(m_time) \div accuracy = m_time
        /\ GlobalPhase(m_time, m_period) = MathPhase(m_time, m_period)
        /\ GlobalPhase(m_time, m_period) \in 0..(accuracy - 1)

\* The slots of the owned buffer, and those of the keys of the group
BufferSlots == 0..(Len(m_buffer) - 1)
GroupSlots == {m_keys[i].index : i \in 1..Len(m_keys)}

\* C10: in explicit-group mode a render call writes exactly the slots of the
\* keys of the group, so every other slot still holds the transparent colour
\* written at setup; in whole-buffer mode a call writes every slot.
C10_WritesExactlyItsSlots ==
    pc \in {"running", "crashed"} =>
        /\ m_keys # <<>> =>
              \A s \in BufferSlots \ GroupSlots : m_buffer[s + 1] = Transparent
        /\ (pc = "running" /\ frames >= 1) =>
              written = (IF m_keys = <<>> THEN BufferSlots ELSE GroupSlots)

\* A group that leaves slots out has been rendered, and a slot of it is coloured
C10_Witness ==
    /\ pc = "running"
    /\ frames >= 1
    /\ m_keys # <<>>
    /\ BufferSlots \ GroupSlots # {}
    /\ \E s \in GroupSlots : m_buffer[s + 1] # Transparent

(***************************************************************************)
(* Properties of generateColorTable (specification SpecGradient)           *)
(***************************************************************************)
\* The two-stop gradient of scenario 2
TwoStops == <<Black, White>>

\* C5 as stated: for the stops {0,0,0,0} and {255,255,255,255} the table has
\* table[0] = {0,0,0,0}, table[512] within rounding of {128,128,128,128}, and
\* a ramp back down across the second half.
C5_MidpointAtHalf ==
    (pc = "table" /\ colors = TwoStops) =>
        /\ table[0] = Black
        /\ \A c \in Channels : Abs(table[512][c] - 128) <= 1
        /\ \A idx \in 512..(accuracy - 2), c \in Channels :
              table[idx + 1][c] <= table[idx][c]

\* C5 (amended): for the stops {0,0,0,0} and {255,255,255,255} the table has
\* table[0] = {0,0,0,0}, rises linearly over the first half with its midpoint
\* table[256] within rounding of {128,128,128,128}, reaches the second stop
\* {255,255,255,255} at table[512], and falls linearly over the second half
\* back to {0,0,0,0} at table[1023].
C5_PeakAtHalf ==
    (pc = "table" /\ colors = TwoStops) =>
        /\ table[0] = Black
        /\ \A c \in Channels : Abs(table[256][c] - 128) <= 1
        /\ table[512] = White
        /\ table[accuracy - 1] = Black
        /\ \A k \in 0..511, c \in Channels :
              /\ table[k][c] = (255 * k) \div 512
              /\ table[512 + k][c] = (255 * (512 - k)) \div 512

\* generateColorTable has returned the table of the two-stop gradient
C5_Witness == pc = "table" /\ colors = TwoStops /\ table[512] = White

\* The boundaries of range r of count ranges, r * N / count (integer division)
Boundary(r, count) == (r * accuracy) \div count

\* C8: for every non-empty list of stops the table has exactly N entries; the
\* ranges [r*N/count, (r+1)*N/count) are contiguous, cover [0, N) with every
\* index assigned exactly once, and differ in size by at most one slot; range
\* r starts at colors[r] and interpolates (to within one unit per channel)
\* towards colors[(r+1) mod count].
C8_RangesPartitionTable ==
    pc = "table" =>
        LET count == Len(colors)
            size(r) == RangeLast(r, count) - RangeFirst(r, count)
        IN /\ DOMAIN table = TableIndices
           /\ Cardinality(DOMAIN table) = accuracy
           /\ \A idx \in TableIndices : writes[idx] = 1
           /\ RangeFirst(0, count) = 0
           /\ RangeLast(count - 1, count) = accuracy
           /\ \A r \in 0..(count - 1) :
                 /\ RangeFirst(r, count) = Boundary(r, count)
                 /\ RangeLast(r, count) = Boundary(r + 1, count)
                 /\ \A q \in 0..(count - 1) : Abs(size(r) - size(q)) <= 1
                 /\ \A idx \in Boundary(r, count)..(Boundary(r + 1, count) - 1) :
                       LET k == idx - Boundary(r, count)
                           n == Boundary(r + 1, count) - Boundary(r, count)
                           colorA == colors[r + 1]
                           colorB == colors[((r + 1) % count) + 1]
                       IN /\ k = 0 => table[idx] = colorA
                          /\ \A c \in Channels :
                                Abs(table[idx][c]
                                    - (colorA[c] * (n - k) + colorB[c] * k) \div n) <= 1

\* A table of three different stops, whose ranges have sizes 341, 341 and 342
C8_Witness ==
    /\ pc = "table"
    /\ Len(colors) = 3
    /\ Cardinality({colors[i] : i \in 1..3}) = 3
    /\ RangeLast(0, 3) - RangeFirst(0, 3) # RangeLast(2, 3) - RangeFirst(2, 3)

(***************************************************************************)
(* Properties of computePhases (specification SpecPhases)                  *)
(***************************************************************************)
\* C4: in both modes and for every direction, wavelength and key position,
\* every phase stored by computePhases lies in [0, accuracy).
C4_PhasesInRange ==
    pc = "phases" => \A i \in 1..Len(m_phases) : m_phases[i] \in 0..(accuracy - 1)

\* A wave pointing down (freqX = 0, freqY < 0) makes every computed value
\* non-positive: a stored phase above 0 went through the correction
C4_Witness ==
    /\ pc = "phases"
    /\ FreqX(m_length, m_direction) = 0
    /\ FreqY(m_length, m_direction) < 0
    /\ \E i \in 1..Len(m_phases) : m_phases[i] > 0

\* The keys the device addresses: <<bidx, kidx>>
DeviceKeys ==
    UNION {{<<b, k>> : k \in 0..(blocks[b + 1].nkeys - 1)} : b \in 0..(Len(blocks) - 1)}

\* A rectangle whose midpoint is the centre of the bounding box
IsCentre(pos) ==
    /\ 2 * TruncDiv(pos.x0 + pos.x1, 2) = bounds.x0 + bounds.x1
    /\ 2 * TruncDiv(pos.y0 + pos.y1, 2) = bounds.y0 + bounds.y1

\* The elements at the centre: the entry of m_phases and the rectangle of each
CentreElements ==
    IF m_keys # <<>>
    THEN {[entry |-> i, position |-> m_keys[i].position] :
             i \in {j \in 1..Len(m_keys) : IsCentre(m_keys[j].position)}}
    ELSE {[entry |-> SlotOf(blocks, bk[1], bk[2]) + 1,
           position |-> DbFind(db, blocks, bk[1], bk[2]).position] :
             bk \in {k \in DeviceKeys :
                        LET it == DbFind(db, blocks, k[1], k[2])
                        IN it.found /\ IsCentre(it.position)}}

\* C6 as stated: an element at the centre of the bounding box has the same
\* phase under every direction (for the configured wavelength).
C6_CentreSameInEveryDirection ==
    pc = "phases" =>
        \A e \in CentreElements, d \in Directions :
            m_phases[e.entry] = KeyPhase(FreqX(m_length, d), FreqY(m_length, d),
                                         e.position, bounds)

\* C6 (amended): the centre element's normalised x is accuracy/2 and its
\* normalised y is accuracy - accuracy * (ymid - bounds.x0) / (bounds.x1 -
\* bounds.x0), which is accuracy/2 too when the x and y ranges of the bounding
\* box coincide.  Its phase is (freqX * accuracy/2 + freqY * y) / accuracy mod
\* accuracy, plus accuracy when negative, and so varies with the direction
\* (512 at 0 degrees but 724 at 45 degrees, for frequency 1024 and a square
\* bounding box).
C6_CentrePhaseFollowsDirection ==
    pc = "phases" =>
        \A e \in CentreElements :
            LET freqX == FreqX(m_length, m_direction)
                freqY == FreqY(m_length, m_direction)
                ymid == TruncDiv(e.position.y0 + e.position.y1, 2)
                y == accuracy - TruncDiv(accuracy * (ymid - bounds.x0),
                                         bounds.x1 - bounds.x0)
                val == TruncRem(TruncDiv(freqX * (accuracy \div 2) + freqY * y,
                                         accuracy), accuracy)
            IN /\ m_phases[e.entry] = IF val < 0 THEN val + accuracy ELSE val
               /\ (bounds.x0 = bounds.y0 /\ bounds.x1 = bounds.y1)
                     => y = accuracy \div 2

\* A centre element has been given a phase, under a diagonal direction that
\* makes the computed value negative
C6_Witness ==
    /\ pc = "phases"
    /\ m_direction = 225
    /\ CentreElements # {}
    /\ \E e \in CentreElements : m_phases[e.entry] # 512

\* The slots of the render target that belong to no key
PaddingSlots ==
    (0..(BufferSize(blocks) - 1)) \ {SlotOf(blocks, bk[1], bk[2]) : bk \in DeviceKeys}

\* C7: the phase table is index-aligned with what render iterates.  In
\* whole-buffer mode it has one entry per slot of the output buffer, the
\* padding slots holding 0; in explicit-group mode one entry per key of the
\* group.  So the asserts of render hold.
C7_PhaseTableAligned ==
    pc = "phases" =>
        IF m_keys = <<>>
        THEN /\ Len(m_phases) = BufferSize(blocks)
             /\ \A s \in PaddingSlots : m_phases[s + 1] = 0
        ELSE Len(m_phases) = Len(m_keys)

\* Whole-buffer mode on a device with padding between and after its blocks,
\* keys missing from the database and keys with computed phases
C7_Witness ==
    /\ pc = "phases"
    /\ m_keys = <<>>
    /\ Len(blocks) >= 2
    /\ \A b \in 1..Len(blocks) : blocks[b].pad > 0 /\ blocks[b].nkeys > 0
    /\ db = "sparse"
    /\ \E i \in 1..Len(m_phases) : m_phases[i] # 0

====
